---- MODULE Spec2Model ----
(***************************************************************************)
(* Model of the CommandPalette component of aetherui                       *)
(* (components/CommandPalette.tsx): the open/closed state machine in       *)
(* controlled and uncontrolled mode, the filter / truncation pipeline,     *)
(* keyboard navigation, the global hotkey listener and the selection of a  *)
(* command.  One action is one DOM event (or one owner re-render) together *)
(* with the re-render and the effects React runs before the next event.    *)
(*                                                                         *)
(* Strings are sequences of one-character strings, so that toLowerCase,    *)
(* trim, includes and split are computed, not assumed.                     *)
(*                                                                         *)
(* Spec varies the close policy, the hotkey and the platform with the      *)
(* default pipeline settings; SpecFilter varies the inputs of the filter   *)
(* pipeline (registry, query, maxResults, matcher) in uncontrolled mode.   *)
(***************************************************************************)
EXTENDS Integers, Sequences, FiniteSets, Bags, TLC

\* ------------------------------------------------------------------ bounds
MaxQueryLen == 1
MaxPending == 1
MaxResultsBound == 3
MaxPressCalls == 2       \* onPress invocations followed per usePress instance
MaxTime == 4             \* the clock of the timer hooks stops here
MaxDelay == 2            \* delays of useThrottle and useDebounce: 0..MaxDelay
MaxColors == 1           \* colors of a mesh gradient config

\* ------------------------------------------------------------ prop defaults
DefaultMaxResults == 8
DefaultHotkey == <<"c", "m", "d", "+", "k">>

\* ------------------------------------------------------ JavaScript values
Undefined == <<"undefined">>
NaN == -1

LowerChar(c) ==
  CASE c = "A" -> "a"
    [] c = "B" -> "b"
    [] c = "K" -> "k"
    [] OTHER -> c

toLowerCase(s) == [i \in 1..Len(s) |-> LowerChar(s[i])]

trim(s) ==
  LET idx == {i \in 1..Len(s) : s[i] # " "}
  IN IF idx = {} THEN <<>>
     ELSE SubSeq(s, CHOOSE i \in idx : \A j \in idx : i <= j,
                    CHOOSE i \in idx : \A j \in idx : i >= j)

includes(term, q) ==
  \E i \in 0..(Len(term) - Len(q)) : SubSeq(term, i + 1, i + Len(q)) = q

\* s.split('+'): the segments of s between the '+' characters
RECURSIVE split(_)
split(s) ==
  LET plus == {i \in 1..Len(s) : s[i] = "+"}
  IN IF plus = {} THEN <<s>>
     ELSE LET p == CHOOSE i \in plus : \A j \in plus : i <= j
          IN <<SubSeq(s, 1, p - 1)>> \o split(SubSeq(s, p + 1, Len(s)))

\* JavaScript's (a + d) % n for a + d >= 0: NaN when a is NaN or n is 0
JsAddMod(a, d, n) == IF a = NaN \/ n = 0 THEN NaN ELSE (a + d) % n

RECURSIVE flatten(_)
flatten(ss) == IF ss = <<>> THEN <<>> ELSE Head(ss) \o flatten(Tail(ss))

\* --------------------------------------------------------------- registries
Cmd(id, label, description, keywords, disabled, action) ==
  [id |-> id, label |-> label, description |-> description,
   keywords |-> keywords, disabled |-> disabled, action |-> action]

c1 == Cmd("c1", <<"A", "b">>, Undefined, <<>>, FALSE, "sync")
c2 == Cmd("c2", <<"b">>, <<"a", " ">>, << <<"B", "a">> >>, FALSE, "async")
c3 == Cmd("c3", <<"a">>, Undefined, <<>>, TRUE, "sync")
c4 == Cmd("c4", <<"b", "b">>, <<>>, <<>>, FALSE, "throws")

Group(id, cmds) == [id |-> id, commands |-> cmds]

\* the values the owner passes as the commands prop
Registry(r) ==
  CASE r = 1 -> <<c1, c2, c3>>
    [] r = 2 -> <<Group("g1", <<c4, c1>>), Group("g2", <<>>), Group("g3", <<c3, c2>>)>>
    [] r = 3 -> <<>>

RegistryIds == 1..3

QueryChars == {"a", "A", " ", "z"}
Queries == UNION {[1..n -> QueryChars] : n \in 0..MaxQueryLen}

Hotkeys == {DefaultHotkey, <<"c", "t", "r", "l", "+", "K">>}
\* keydown events: no modifier, the command key or the control key held
KeyEvents ==
  {e \in [metaKey : BOOLEAN, ctrlKey : BOOLEAN, key : {<<"k">>, <<"K">>, <<"j">>}] :
     ~(e.metaKey /\ e.ctrlKey)}
NoKey == [metaKey |-> FALSE, ctrlKey |-> FALSE, key |-> <<>>]

\* ------------------------------------------------------------------- state
VARIABLES
  controlledIsOpen,   \* the isOpen prop: "undefined", "true" or "false"
  internalIsOpen,     \* useState(false)
  query,              \* useState('')
  selectedIndex,      \* useState(0); NaN after % 0
  commands,           \* the commands prop (index into Registry)
  maxResults,         \* props fixed for the instance
  filterFn,
  closeOnSelect,
  hasOnClose,
  hotkey,
  isMac,              \* navigator.platform contains MAC
  pending,            \* bag of command actions whose promise has not settled
  last,               \* the last event and what it called
  mounted,            \* the palette instance is mounted
  listener,           \* the hotkey effect: keydown listeners on window, and
                      \* the addEventListener / removeEventListener calls of
                      \* the last step
  press,              \* a usePress instance (hooks/useBackdropFilter.ts)
  throttle,           \* a useThrottle instance and its clock
  debounce,           \* a useDebounce instance, its clock and its timers
  mesh                \* the last call of interpolateMeshGradients

vars == <<controlledIsOpen, internalIsOpen, query, selectedIndex, commands,
          maxResults, filterFn, closeOnSelect, hasOnClose, hotkey, isMac,
          pending, last, mounted, listener, press, throttle, debounce, mesh>>

\* the hooks and utilities beside the palette
hooks == <<press, throttle, debounce, mesh>>

props == <<maxResults, filterFn, closeOnSelect, hasOnClose, hotkey, isMac>>

\* ----------------------------------------------------------- derived values
isControlledOf(c) == c # "undefined"
isControlled == isControlledOf(controlledIsOpen)

\* isOpen = internalIsOpen || controlledIsOpen
isOpenOfEither(c, internal) == internal \/ c = "true"

isOpenOf(c, internal) == IF isControlledOf(c) THEN c = "true" ELSE internal
isOpen == isOpenOf(controlledIsOpen, internalIsOpen)

commandGroupsOf(cmds) ==
  IF cmds # <<>> /\ "commands" \in DOMAIN cmds[1]
  THEN cmds
  ELSE <<Group("default", cmds)>>

\* the matcher comparing the terms as they are written
defaultFilterCaseSensitive(command, q) ==
  LET raw == <<command.label, command.description>> \o command.keywords
      isTruthy(t) == t # Undefined /\ t # <<>>
      searchTerms == SelectSeq(raw, isTruthy)
  IN \E i \in 1..Len(searchTerms) : includes(searchTerms[i], q)

defaultFilter(command, q) ==
  LET raw == <<command.label, command.description>> \o command.keywords
      isTruthy(t) == t # Undefined /\ t # <<>>
      searchTerms == SelectSeq(raw, isTruthy)
  IN \E i \in 1..Len(searchTerms) : includes(toLowerCase(searchTerms[i]), q)

\* a caller-supplied matcher: matches every command
customFilter(command, q) == TRUE

matches(fn, command, q) ==
  IF fn = "custom" THEN customFilter(command, q) ELSE defaultFilter(command, q)

filteredGroupsOf(groups, qry, fn) ==
  IF trim(qry) = <<>> THEN groups
  ELSE LET lowerQuery == toLowerCase(qry)
           keepCmd(cmd) == ~cmd.disabled /\ matches(fn, cmd, lowerQuery)
           mapped == [i \in 1..Len(groups) |->
                        [groups[i] EXCEPT !.commands = SelectSeq(@, keepCmd)]]
           nonEmpty(g) == Len(g.commands) > 0
       IN SelectSeq(mapped, nonEmpty)

filteredCommandsOf(fgroups) ==
  flatten([i \in 1..Len(fgroups) |-> fgroups[i].commands])

\* the loop slicing every group to maxResults instead of what remains
RECURSIVE limitLoopSliceMax(_, _, _)
limitLoopSliceMax(fgroups, max, count) ==
  IF fgroups = <<>> THEN <<>>
  ELSE LET group == Head(fgroups)
           remaining == max - count
       IN IF remaining <= 0 THEN <<>>
          ELSE <<[group EXCEPT !.commands =
                    SubSeq(@, 1, IF max < Len(@) THEN max ELSE Len(@))]>>
               \o limitLoopSliceMax(Tail(fgroups), max, count + Len(group.commands))

RECURSIVE limitLoop(_, _, _)
limitLoop(fgroups, max, count) ==
  IF fgroups = <<>> THEN <<>>
  ELSE LET group == Head(fgroups)
           remaining == max - count
       IN IF remaining <= 0 THEN <<>>
          ELSE <<[group EXCEPT !.commands =
                    SubSeq(@, 1, IF remaining < Len(@) THEN remaining ELSE Len(@))]>>
               \o limitLoop(Tail(fgroups), max, count + Len(group.commands))

limitedGroupsOf(fgroups, max) == limitLoop(fgroups, max, 0)

commandGroups == commandGroupsOf(Registry(commands))
filteredGroups == filteredGroupsOf(commandGroups, query, filterFn)
filteredCommands == filteredCommandsOf(filteredGroups)
limitedGroups == limitedGroupsOf(filteredGroups, maxResults)
\* the commands that are rendered as buttons
visibleCommands == filteredCommandsOf(limitedGroups)

\* limitedGroups.length === 0 ? emptyMessage : the groups
emptyMessageRendered == Len(limitedGroups) = 0

\* ------------------------------------------------------------ the handlers
\* a handleOpen that sets internalIsOpen in both modes
handleOpenAlways(ctl, internal) == TRUE

\* handleOpen: the new value of internalIsOpen
handleOpen(ctl, internal) == IF ctl THEN internal ELSE TRUE

\* handleClose: the new value of internalIsOpen
handleClose(ctl, internal) == IF ctl THEN internal ELSE FALSE

\* handleClose: how many times it calls onClose
handleCloseNotifies(ctl, has) ==
  IF has THEN (IF ctl THEN 1 ELSE 0) + 1 ELSE 0

\* a handleClose that leaves query and selectedIndex alone
RunCloseKeepsQuery(ctl) ==
  /\ internalIsOpen' = handleClose(ctl, internalIsOpen)
  /\ UNCHANGED <<query, selectedIndex>>

\* handleClose as run from a closure that captured isControlled = ctl
RunClose(ctl) ==
  /\ internalIsOpen' = handleClose(ctl, internalIsOpen)
  /\ query' = <<>>
  /\ selectedIndex' = 0

\* the key of the chord: hotkey.toLowerCase().split('+')[1]
hotkeyKey(h) ==
  LET parts == split(toLowerCase(h))
  IN IF Len(parts) >= 2 THEN parts[2] ELSE Undefined

\* handleKeyPress comparing e.key without lowering its case
hotkeyMatchesCaseSensitive(e, h, mac) ==
  LET modKey == IF mac THEN e.metaKey ELSE e.ctrlKey
  IN modKey /\ e.key = hotkeyKey(h)

\* the test of handleKeyPress
hotkeyMatches(e, h, mac) ==
  LET modKey == IF mac THEN e.metaKey ELSE e.ctrlKey
  IN modKey /\ toLowerCase(e.key) = hotkeyKey(h)

\* ArrowDown without the modulo
moveNextNoWrap(prev, n) == IF prev = NaN \/ n = 0 THEN NaN ELSE prev + 1

moveNext(prev, n) == JsAddMod(prev, 1, n)
movePrevious(prev, n) == JsAddMod(prev, n - 1, n)

\* filteredCommands[selectedIndex] is defined
hasSelected(flat, idx) == idx # NaN /\ idx >= 0 /\ idx < Len(flat)

\* What one event did: the handleClose calls, the onClose calls, the command
\* whose action ran and whether an error left the handler.  target is the
\* command a selection aimed at, prev the index an arrow key started from.
EventRec(ev, key, closes, notifies, invoked, error) ==
  [ev |-> ev, key |-> key, wasOpen |-> isOpen, closes |-> closes,
   onClose |-> notifies, invoked |-> invoked, error |-> error,
   target |-> invoked, prev |-> 0, stale |-> FALSE, focus |-> 0]

Event(ev, key, closes, notifies, invoked, error) ==
  last' = EventRec(ev, key, closes, notifies, invoked, error)

Quiet(ev) == Event(ev, NoKey, 0, 0, "none", FALSE)
Closing(ev, key, ctl, invoked) ==
  Event(ev, key, 1, handleCloseNotifies(ctl, hasOnClose), invoked, FALSE)
\* handleOpen ran: it schedules the timer that focuses the input
Opening(ev, key) ==
  last' = [EventRec(ev, key, 0, 0, "none", FALSE) EXCEPT !.focus = 1]
\* a selection of command id that the handler refused
Refused(ev, id) ==
  last' = [EventRec(ev, NoKey, 0, 0, "none", FALSE) EXCEPT !.target = id]
\* an arrow key pressed at index idx
Moved(ev, idx) ==
  last' = [EventRec(ev, NoKey, 0, 0, "none", FALSE) EXCEPT !.prev = idx]

\* selection handlers that do not look at disabled
isSelectableAlways(command) == TRUE

\* the test both selection handlers make before running the action
isSelectable(command) == ~command.disabled

\* ------------------------------------------------------ the hotkey effect
\* window.addEventListener('keydown', handleKeyPress)
addListener(n) == n + 1
\* a cleanup that leaves the listener on window
removeListenerKept(n) == n

\* the cleanup the effect returns: window.removeEventListener(...)
removeListener(n) == IF n > 0 THEN n - 1 ELSE 0

NoEffect(l) == [l EXCEPT !.added = 0, !.removed = 0]

\* React runs the cleanup of the previous run (when it returned one), then the
\* effect body, which registers nothing when hotkey is empty
runEffect(l, h) ==
  LET cleaned == IF l.cleanup
                 THEN [l EXCEPT !.count = removeListener(@), !.removed = 1,
                                !.stale = (l.stale \/ l.count = 0)]
                 ELSE [l EXCEPT !.removed = 0]
  IN IF h = <<>>
     THEN [cleaned EXCEPT !.cleanup = FALSE, !.added = 0]
     ELSE [cleaned EXCEPT !.count = addListener(@), !.cleanup = TRUE, !.added = 1]

\* unmount runs the outstanding cleanup only
runCleanup(l) ==
  IF l.cleanup
  THEN [l EXCEPT !.count = removeListener(@), !.removed = 1, !.added = 0,
                 !.cleanup = FALSE, !.stale = (l.stale \/ l.count = 0)]
  ELSE NoEffect(l)

\* after the re-render of an event: the effect runs again when one of its
\* dependencies [hotkey, isOpen, handleOpen, handleClose] changed
HotkeyEffect ==
  /\ mounted' = mounted
  /\ listener' = IF \/ hotkey' # hotkey
                    \/ isOpen' # isOpen
                    \/ isControlled' # isControlled
                 THEN runEffect(listener, hotkey')
                 ELSE NoEffect(listener)

\* ------------------------------------------------------ pending actions
\* the promise of an asynchronous action started by a selection: how it was
\* selected, the isControlled its handler captured, and whether the palette
\* has closed since the selection
Promise(via, ctl) == [via |-> via, ctl |-> ctl, closedSince |-> FALSE]

\* the pending actions after command was selected
withAction(pnd, command, via, ctl) ==
  IF command.action = "async" THEN pnd (+) SetToBag({Promise(via, ctl)}) ELSE pnd

\* the palette closes: every awaited (click-selected) action now belongs to
\* an earlier open cycle
closeMarks(pnd) ==
  LET marked(x) == IF x.via = "click" THEN [x EXCEPT !.closedSince = TRUE] ELSE x
      copies(e) == IF e \in DOMAIN pnd THEN pnd[e] ELSE 0
      count(e) == IF e.via = "click"
                  THEN copies(e) + copies([e EXCEPT !.closedSince = FALSE])
                  ELSE copies(e)
  IN [e \in {marked(x) : x \in DOMAIN pnd} |-> count(e)]

\* the pending actions after an event that left pnd pending
Pending(pnd) ==
  pending' = IF isOpen /\ ~isOpen' THEN closeMarks(pnd) ELSE pnd

\* ---------------------------------------------------------------- actions
\* click on the trigger or on the shortcut hint
TriggerClick ==
  /\ mounted
  /\ internalIsOpen' = handleOpen(isControlled, internalIsOpen)
  /\ Opening("trigger", NoKey)
  /\ UNCHANGED <<controlledIsOpen, query, selectedIndex, commands, props, hooks>>
  /\ Pending(pending)
  /\ HotkeyEffect

\* a keydown event reaching the window listener
WindowKeyDown(e) ==
  /\ mounted
  /\ listener.count > 0
  /\ IF hotkeyMatches(e, hotkey, isMac)
     THEN IF isOpen
          THEN RunClose(isControlled) /\ Closing("keydown", e, isControlled, "none")
          ELSE /\ internalIsOpen' = handleOpen(isControlled, internalIsOpen)
               /\ Opening("keydown", e)
               /\ UNCHANGED <<query, selectedIndex>>
     ELSE /\ Event("keydown", e, 0, 0, "none", FALSE)
          /\ UNCHANGED <<internalIsOpen, query, selectedIndex>>
  /\ UNCHANGED <<controlledIsOpen, commands, props, hooks>>
  /\ Pending(pending)
  /\ HotkeyEffect

ArrowDown ==
  /\ mounted
  /\ isOpen
  /\ selectedIndex' = moveNext(selectedIndex, Len(filteredCommands))
  /\ Moved("ArrowDown", selectedIndex)
  /\ UNCHANGED <<controlledIsOpen, internalIsOpen, query, commands, props, hooks>>
  /\ Pending(pending)
  /\ HotkeyEffect

ArrowUp ==
  /\ mounted
  /\ isOpen
  /\ selectedIndex' = movePrevious(selectedIndex, Len(filteredCommands))
  /\ Moved("ArrowUp", selectedIndex)
  /\ UNCHANGED <<controlledIsOpen, internalIsOpen, query, commands, props, hooks>>
  /\ Pending(pending)
  /\ HotkeyEffect

Escape ==
  /\ mounted
  /\ isOpen
  /\ RunClose(isControlled)
  /\ Closing("Escape", NoKey, isControlled, "none")
  /\ UNCHANGED <<controlledIsOpen, commands, props, hooks>>
  /\ Pending(pending)
  /\ HotkeyEffect

OverlayClick ==
  /\ mounted
  /\ isOpen
  /\ RunClose(isControlled)
  /\ Closing("overlay", NoKey, isControlled, "none")
  /\ UNCHANGED <<controlledIsOpen, commands, props, hooks>>
  /\ Pending(pending)
  /\ HotkeyEffect

\* input onChange, and the clear button (q = '')
SetQuery(q) ==
  /\ mounted
  /\ isOpen
  /\ query' = q
  /\ selectedIndex' = IF q # query THEN 0 ELSE selectedIndex
  /\ Quiet("change")
  /\ UNCHANGED <<controlledIsOpen, internalIsOpen, commands, props, hooks>>
  /\ Pending(pending)
  /\ HotkeyEffect

NoChange == UNCHANGED <<internalIsOpen, query, selectedIndex>>

Enter ==
  /\ mounted
  /\ isOpen
  /\ IF hasSelected(filteredCommands, selectedIndex)
        /\ isSelectable(filteredCommands[selectedIndex + 1])
     THEN LET cmd == filteredCommands[selectedIndex + 1] IN
          /\ cmd.action = "async" => BagCardinality(pending) < MaxPending
          /\ IF cmd.action = "throws"
             THEN NoChange /\ Event("Enter", NoKey, 0, 0, cmd.id, TRUE)
             ELSE IF closeOnSelect
                  THEN RunClose(isControlled) /\ Closing("Enter", NoKey, isControlled, cmd.id)
                  ELSE NoChange /\ Event("Enter", NoKey, 0, 0, cmd.id, FALSE)
     ELSE /\ NoChange
          /\ Refused("Enter", IF hasSelected(filteredCommands, selectedIndex)
                              THEN filteredCommands[selectedIndex + 1].id
                              ELSE "none")
  /\ UNCHANGED <<controlledIsOpen, commands, props, hooks>>
  /\ Pending(IF hasSelected(filteredCommands, selectedIndex)
                /\ isSelectable(filteredCommands[selectedIndex + 1])
             THEN withAction(pending, filteredCommands[selectedIndex + 1], "Enter", FALSE)
             ELSE pending)
  /\ HotkeyEffect

\* click on the i-th rendered command button
ClickCommand(i) ==
  /\ mounted
  /\ isOpen
  /\ i \in 1..Len(visibleCommands)
  /\ LET cmd == visibleCommands[i] IN
     IF ~isSelectable(cmd)
     THEN NoChange /\ Refused("click", cmd.id)
     ELSE /\ cmd.action = "async" => BagCardinality(pending) < MaxPending
          /\ CASE cmd.action = "throws" ->
                    NoChange /\ Event("click", NoKey, 0, 0, cmd.id, TRUE)
               [] cmd.action = "async" ->
                    NoChange /\ Event("click", NoKey, 0, 0, cmd.id, FALSE)
               [] OTHER ->
                    IF closeOnSelect
                    THEN RunClose(isControlled) /\ Closing("click", NoKey, isControlled, cmd.id)
                    ELSE NoChange /\ Event("click", NoKey, 0, 0, cmd.id, FALSE)
  /\ UNCHANGED <<controlledIsOpen, commands, props, hooks>>
  /\ Pending(IF isSelectable(visibleCommands[i])
             THEN withAction(pending, visibleCommands[i], "click", isControlled)
             ELSE pending)
  /\ HotkeyEffect

\* the promise returned by a command's action settles
Settle(p, ok) ==
  /\ mounted
  /\ p \in BagToSet(pending)
  /\ IF p.via = "click" /\ ok /\ closeOnSelect
     THEN /\ RunClose(p.ctl)
          /\ last' = [EventRec("settle" \o p.via, NoKey, 1,
                                handleCloseNotifies(p.ctl, hasOnClose), "none", FALSE)
                        EXCEPT !.stale = p.closedSince]
     ELSE /\ NoChange
          /\ last' = [EventRec("settle" \o p.via, NoKey, 0, 0, "none", ~ok)
                        EXCEPT !.stale = p.closedSince]
  /\ UNCHANGED <<controlledIsOpen, commands, props, hooks>>
  /\ Pending(pending (-) SetToBag({p}))
  /\ HotkeyEffect

\* the owner re-renders with another isOpen prop
OwnerSetIsOpen(v) ==
  /\ mounted
  /\ v # controlledIsOpen
  /\ controlledIsOpen' = v
  /\ Quiet("isOpen")
  /\ UNCHANGED <<internalIsOpen, query, selectedIndex, commands, props, hooks>>
  /\ Pending(pending)
  /\ HotkeyEffect

\* the owner re-renders with another commands prop
OwnerSetCommands(r) ==
  /\ mounted
  /\ r # commands
  /\ commands' = r
  /\ Quiet("commands")
  /\ UNCHANGED <<controlledIsOpen, internalIsOpen, query, selectedIndex, props, hooks>>
  /\ Pending(pending)
  /\ HotkeyEffect

\* the owner re-renders with another hotkey prop
OwnerSetHotkey(h) ==
  /\ mounted
  /\ h # hotkey
  /\ hotkey' = h
  /\ Quiet("hotkey")
  /\ UNCHANGED <<controlledIsOpen, internalIsOpen, query, selectedIndex, commands,
                 maxResults, filterFn, closeOnSelect, hasOnClose, isMac, hooks>>
  /\ Pending(pending)
  /\ HotkeyEffect

\* a key the switch of handleKeyDown has no case for
OtherKeys == {"Home", "End", "Space"}

OtherKeyDown(k) ==
  /\ mounted
  /\ isOpen
  /\ NoChange
  /\ Refused(k, IF hasSelected(filteredCommands, selectedIndex)
                THEN filteredCommands[selectedIndex + 1].id
                ELSE "none")
  /\ UNCHANGED <<controlledIsOpen, commands, props, hooks>>
  /\ Pending(pending)
  /\ HotkeyEffect

\* no time: no call has run, no input has changed
NoTime == -1

\* a useThrottle instance that is not part of the behaviour
NoThrottle == [now |-> 0, delay |-> 0, lastRun |-> 0, ev |-> "none",
               executed |-> FALSE, first |-> FALSE, prevExec |-> NoTime,
               lastExec |-> NoTime, called |-> FALSE]

\* a useDebounce instance that is not part of the behaviour
NoDebounce == [now |-> 0, delay |-> 0, value |-> "none", debounced |-> "none",
               before |-> "none", timers |-> {}, handler |-> <<>>,
               lastChange |-> 0, changed |-> FALSE, ev |-> "none"]

\* a number that is undefined (an optional field left out)
UndefinedNumber == -2

\* no call of interpolateMeshGradients yet
NoMesh == [called |-> FALSE, config1 |-> <<>>, config2 |-> <<>>, progress |-> 0,
           result |-> <<>>]

\* the first render: nothing has been called yet
Mounted ==
  [ev |-> "mount", key |-> NoKey, wasOpen |-> FALSE, closes |-> 0, onClose |-> 0,
   invoked |-> "none", error |-> FALSE, target |-> "none", prev |-> 0,
   stale |-> FALSE, focus |-> 0]

NoListener == [count |-> 0, cleanup |-> FALSE, added |-> 0, removed |-> 0, stale |-> FALSE]

\* a usePress instance that is not part of the behaviour
NoPress == [disabled |-> FALSE, hasOnPress |-> FALSE, isPressed |-> FALSE,
            started |-> FALSE, wasStarted |-> FALSE, ev |-> "none",
            onPress |-> 0, calls |-> 0]

\* the owner removes the palette: its state is dropped and React runs the
\* cleanup of the hotkey effect
Unmount ==
  /\ mounted
  /\ mounted' = FALSE
  /\ listener' = runCleanup(listener)
  /\ internalIsOpen' = FALSE
  /\ query' = <<>>
  /\ selectedIndex' = 0
  /\ Quiet("unmount")
  /\ UNCHANGED <<controlledIsOpen, commands, props, pending, hooks>>

\* the owner renders the palette again: a fresh instance
Mount ==
  /\ ~mounted
  /\ mounted' = TRUE
  /\ listener' = runEffect(listener, hotkey)
  /\ last' = Mounted
  /\ UNCHANGED <<controlledIsOpen, internalIsOpen, query, selectedIndex, commands,
                 props, pending, hooks>>

Init ==
  /\ controlledIsOpen \in {"undefined", "true", "false"}
  /\ internalIsOpen = FALSE
  /\ query = <<>>
  /\ selectedIndex = 0
  /\ commands \in RegistryIds
  /\ maxResults = DefaultMaxResults
  /\ filterFn = "default"
  /\ closeOnSelect \in BOOLEAN
  /\ hasOnClose = TRUE
  /\ hotkey = DefaultHotkey
  /\ isMac = FALSE
  /\ pending = EmptyBag
  /\ last = Mounted
  /\ mounted = TRUE
  /\ listener = runEffect(NoListener, hotkey)
  /\ press = NoPress
  /\ throttle = NoThrottle
  /\ debounce = NoDebounce
  /\ mesh = NoMesh

Next ==
  \/ TriggerClick
  \/ \E e \in KeyEvents : WindowKeyDown(e)
  \/ ArrowDown
  \/ ArrowUp
  \/ Escape
  \/ OverlayClick
  \/ \E q \in Queries : SetQuery(q)
  \/ Enter
  \/ \E i \in 1..4 : ClickCommand(i)
  \/ \E p \in BagToSet(pending), ok \in BOOLEAN : Settle(p, ok)
  \/ \E v \in {"undefined", "true", "false"} : OwnerSetIsOpen(v)
  \/ \E r \in RegistryIds : OwnerSetCommands(r)

Spec == Init /\ [][Next]_vars

\* The global hotkey: every chord, platform and keydown event, on a palette
\* that is opened, closed and searched.
InitHotkey ==
  /\ controlledIsOpen \in {"undefined", "true", "false"}
  /\ internalIsOpen = FALSE
  /\ query = <<>>
  /\ selectedIndex = 0
  /\ commands = 1
  /\ maxResults = DefaultMaxResults
  /\ filterFn = "default"
  /\ closeOnSelect = TRUE
  /\ hasOnClose = TRUE
  /\ hotkey \in Hotkeys
  /\ isMac \in BOOLEAN
  /\ pending = EmptyBag
  /\ last = Mounted
  /\ mounted = TRUE
  /\ listener = runEffect(NoListener, hotkey)
  /\ press = NoPress
  /\ throttle = NoThrottle
  /\ debounce = NoDebounce
  /\ mesh = NoMesh

NextHotkey ==
  \/ \E e \in KeyEvents : WindowKeyDown(e)
  \/ TriggerClick
  \/ Escape
  \/ OverlayClick
  \/ \E q \in Queries : SetQuery(q)
  \/ ArrowDown
  \/ \E v \in {"undefined", "true", "false"} : OwnerSetIsOpen(v)
  \/ \E h \in Hotkeys : OwnerSetHotkey(h)

SpecHotkey == InitHotkey /\ [][NextHotkey]_vars

\* The keys of the search input: every key the keyboard contract names, on an
\* open palette.
InitKeys ==
  /\ controlledIsOpen \in {"undefined", "true"}
  /\ internalIsOpen = FALSE
  /\ query = <<>>
  /\ selectedIndex = 0
  /\ commands \in RegistryIds
  /\ maxResults = DefaultMaxResults
  /\ filterFn = "default"
  /\ closeOnSelect \in BOOLEAN
  /\ hasOnClose = TRUE
  /\ hotkey = DefaultHotkey
  /\ isMac = FALSE
  /\ pending = EmptyBag
  /\ last = Mounted
  /\ mounted = TRUE
  /\ listener = runEffect(NoListener, hotkey)
  /\ press = NoPress
  /\ throttle = NoThrottle
  /\ debounce = NoDebounce
  /\ mesh = NoMesh

NextKeys ==
  \/ TriggerClick
  \/ \E q \in Queries : SetQuery(q)
  \/ ArrowDown
  \/ ArrowUp
  \/ Enter
  \/ Escape
  \/ \E k \in OtherKeys : OtherKeyDown(k)
  \/ \E p \in BagToSet(pending), ok \in BOOLEAN : Settle(p, ok)

SpecKeys == InitKeys /\ [][NextKeys]_vars

\* The palette in uncontrolled mode with the inputs of the filter pipeline
\* (registry, query, maxResults, matcher) drawn from bounded sets.
InitFilter ==
  /\ controlledIsOpen = "undefined"
  /\ internalIsOpen = FALSE
  /\ query = <<>>
  /\ selectedIndex = 0
  /\ commands \in RegistryIds
  /\ maxResults \in (1..MaxResultsBound) \cup {DefaultMaxResults}
  /\ filterFn \in {"default", "custom"}
  /\ closeOnSelect = TRUE
  /\ hasOnClose = FALSE
  /\ hotkey = DefaultHotkey
  /\ isMac = FALSE
  /\ pending = EmptyBag
  /\ last = Mounted
  /\ mounted = TRUE
  /\ listener = runEffect(NoListener, hotkey)
  /\ press = NoPress
  /\ throttle = NoThrottle
  /\ debounce = NoDebounce
  /\ mesh = NoMesh

NextFilter ==
  \/ TriggerClick
  \/ \E q \in Queries : SetQuery(q)
  \/ \E r \in RegistryIds : OwnerSetCommands(r)
  \/ ArrowDown
  \/ ArrowUp
  \/ Escape

SpecFilter == InitFilter /\ [][NextFilter]_vars

\* The life of one palette instance after another: mount, open and close,
\* prop changes, unmount.
InitLifecycle ==
  /\ controlledIsOpen \in {"undefined", "true", "false"}
  /\ internalIsOpen = FALSE
  /\ query = <<>>
  /\ selectedIndex = 0
  /\ commands \in RegistryIds
  /\ maxResults = DefaultMaxResults
  /\ filterFn = "default"
  /\ closeOnSelect = TRUE
  /\ hasOnClose = TRUE
  /\ hotkey \in Hotkeys \cup {<<>>}
  /\ isMac = FALSE
  /\ pending = EmptyBag
  /\ last = Mounted
  /\ mounted = TRUE
  /\ listener = runEffect(NoListener, hotkey)
  /\ press = NoPress
  /\ throttle = NoThrottle
  /\ debounce = NoDebounce
  /\ mesh = NoMesh

NextLifecycle ==
  \/ Unmount
  \/ Mount
  \/ TriggerClick
  \/ \E e \in KeyEvents : WindowKeyDown(e)
  \/ Escape
  \/ OverlayClick
  \/ \E v \in {"undefined", "true", "false"} : OwnerSetIsOpen(v)
  \/ \E r \in RegistryIds : OwnerSetCommands(r)
  \/ \E h \in Hotkeys \cup {<<>>} : OwnerSetHotkey(h)

SpecLifecycle == InitLifecycle /\ [][NextLifecycle]_vars

\* ------------------------------------------------------------- usePress
palette == <<controlledIsOpen, internalIsOpen, query, selectedIndex, commands,
             maxResults, filterFn, closeOnSelect, hasOnClose, hotkey, isMac,
             pending, last, mounted, listener>>

PressStarts == {"mouseDown", "touchStart"}
PressEnds == {"mouseUp", "mouseLeave", "touchEnd"}

\* handlePressStart: returns at once when disabled, else setIsPressed(true)
handlePressStart(p) == IF p.disabled THEN p.isPressed ELSE TRUE

\* handlePressEnd calls options.onPress?.()
pressEndCalls(p) == IF p.hasOnPress THEN 1 ELSE 0

PressStart(ev) ==
  /\ press' = [press EXCEPT !.isPressed = handlePressStart(press),
                            !.started = TRUE, !.ev = ev, !.onPress = 0]
  /\ UNCHANGED <<palette, throttle, debounce, mesh>>

PressEnd(ev) ==
  /\ press.calls + pressEndCalls(press) <= MaxPressCalls
  /\ press' = [press EXCEPT !.isPressed = FALSE, !.started = FALSE, !.ev = ev,
                            !.wasStarted = press.started,
                            !.onPress = pressEndCalls(press),
                            !.calls = @ + pressEndCalls(press)]
  /\ UNCHANGED <<palette, throttle, debounce, mesh>>

\* the owner re-renders with other options
PressRender(d, h) ==
  /\ <<d, h>> # <<press.disabled, press.hasOnPress>>
  /\ press' = [press EXCEPT !.disabled = d, !.hasOnPress = h, !.ev = "render",
                            !.onPress = 0]
  /\ UNCHANGED <<palette, throttle, debounce, mesh>>

InitPress ==
  /\ controlledIsOpen = "undefined"
  /\ internalIsOpen = FALSE
  /\ query = <<>>
  /\ selectedIndex = 0
  /\ commands = 1
  /\ maxResults = DefaultMaxResults
  /\ filterFn = "default"
  /\ closeOnSelect = TRUE
  /\ hasOnClose = FALSE
  /\ hotkey = DefaultHotkey
  /\ isMac = FALSE
  /\ pending = EmptyBag
  /\ last = Mounted
  /\ mounted = TRUE
  /\ listener = runEffect(NoListener, hotkey)
  /\ \E d \in BOOLEAN, h \in BOOLEAN :
       press = [NoPress EXCEPT !.disabled = d, !.hasOnPress = h]
  /\ throttle = NoThrottle
  /\ debounce = NoDebounce
  /\ mesh = NoMesh

NextPress ==
  \/ \E ev \in PressStarts : PressStart(ev)
  \/ \E ev \in PressEnds : PressEnd(ev)
  \/ \E d \in BOOLEAN, h \in BOOLEAN : PressRender(d, h)

SpecPress == InitPress /\ [][NextPress]_vars

\* ----------------------------------------------------------- useThrottle
Delays == 0..MaxDelay

\* the test of the throttled function: now - lastRun.current >= delay
throttleRuns(t) == t.now - t.lastRun >= t.delay

\* a call of the throttled function
ThrottleCall ==
  /\ throttle' = [throttle EXCEPT
        !.ev = "call",
        !.executed = throttleRuns(throttle),
        !.lastRun = IF throttleRuns(throttle) THEN throttle.now ELSE @,
        !.first = ~throttle.called,
        !.called = TRUE,
        !.prevExec = throttle.lastExec,
        !.lastExec = IF throttleRuns(throttle) THEN throttle.now ELSE @]
  /\ UNCHANGED <<palette, press, debounce, mesh>>

\* one time unit passes
ThrottleTick ==
  /\ throttle.now < MaxTime
  /\ throttle' = [throttle EXCEPT !.now = @ + 1, !.ev = "tick"]
  /\ UNCHANGED <<palette, press, debounce, mesh>>

\* the owner re-renders with another delay: lastRun is a ref and stays
ThrottleRender(d) ==
  /\ d # throttle.delay
  /\ throttle' = [throttle EXCEPT !.delay = d, !.ev = "render"]
  /\ UNCHANGED <<palette, press, debounce, mesh>>

\* the palette beside the hooks: one instance, closed
PaletteIdle ==
  /\ controlledIsOpen = "undefined"
  /\ internalIsOpen = FALSE
  /\ query = <<>>
  /\ selectedIndex = 0
  /\ commands = 1
  /\ maxResults = DefaultMaxResults
  /\ filterFn = "default"
  /\ closeOnSelect = TRUE
  /\ hasOnClose = FALSE
  /\ hotkey = DefaultHotkey
  /\ isMac = FALSE
  /\ pending = EmptyBag
  /\ last = Mounted
  /\ mounted = TRUE
  /\ listener = runEffect(NoListener, hotkey)

\* lastRun = useRef(Date.now()): the time of the first render
InitThrottle ==
  /\ PaletteIdle
  /\ press = NoPress
  /\ \E d \in Delays : throttle = [NoThrottle EXCEPT !.delay = d]
  /\ debounce = NoDebounce
  /\ mesh = NoMesh

NextThrottle ==
  \/ ThrottleCall
  \/ ThrottleTick
  \/ \E d \in Delays : ThrottleRender(d)

SpecThrottle == InitThrottle /\ [][NextThrottle]_vars

\* ----------------------------------------------------------- useDebounce
DebounceValues == {"initial", "change1", "change2"}

\* setTimeout(() => setDebouncedValue(value), delay) at time now
setTimeout(now, v, d) == [at |-> now + d, value |-> v]

\* an effect whose cleanup leaves the timer running
clearTimeoutKept(ts, h) == ts

\* clearTimeout(handler): the cleanup of the effect
clearTimeout(ts, h) == ts \ {h}

\* the owner re-renders with another value or delay: cleanup, then the effect
DebounceRender(v, d) ==
  /\ <<v, d>> # <<debounce.value, debounce.delay>>
  /\ LET h == setTimeout(debounce.now, v, d)
     IN debounce' = [debounce EXCEPT
          !.value = v, !.delay = d, !.ev = "render",
          !.before = debounce.debounced,
          !.timers = clearTimeout(debounce.timers, debounce.handler) \cup {h},
          !.handler = h,
          !.changed = (@ \/ v # debounce.value),
          !.lastChange = IF v # debounce.value THEN debounce.now ELSE @]
  /\ UNCHANGED <<palette, press, throttle, mesh>>

\* a timer whose time has come runs: setDebouncedValue(value)
DebounceFire(t) ==
  /\ t.at <= debounce.now
  /\ debounce' = [debounce EXCEPT !.debounced = t.value, !.ev = "fire",
                                  !.before = debounce.debounced,
                                  !.timers = @ \ {t}]
  /\ UNCHANGED <<palette, press, throttle, mesh>>

\* one time unit passes, once every timer that is due has run
DebounceTick ==
  /\ debounce.now < MaxTime
  /\ \A t \in debounce.timers : t.at > debounce.now
  /\ debounce' = [debounce EXCEPT !.now = @ + 1, !.ev = "tick",
                                  !.before = debounce.debounced]
  /\ UNCHANGED <<palette, press, throttle, mesh>>

\* the first render: useState(value), then the effect sets the first timer
InitDebounce ==
  /\ PaletteIdle
  /\ press = NoPress
  /\ throttle = NoThrottle
  /\ \E d \in Delays :
       debounce = [NoDebounce EXCEPT
                     !.delay = d, !.value = "initial", !.debounced = "initial",
                     !.before = "initial",
                     !.timers = {setTimeout(0, "initial", d)},
                     !.handler = setTimeout(0, "initial", d)]
  /\ mesh = NoMesh

NextDebounce ==
  \/ \E v \in DebounceValues, d \in Delays : DebounceRender(v, d)
  \/ \E t \in debounce.timers : DebounceFire(t)
  \/ DebounceTick

SpecDebounce == InitDebounce /\ [][NextDebounce]_vars

\* ----------------------------------------------- interpolateMeshGradients
DefaultSpeed == 15

\* hex2rgb: the regular expression accepts #rrggbb only, anything else is black
hex2rgb(hex) ==
  CASE hex = "#ff0000" -> [r |-> 255, g |-> 0, b |-> 0]
    [] hex = "#0000ff" -> [r |-> 0, g |-> 0, b |-> 255]
    [] OTHER -> [r |-> 0, g |-> 0, b |-> 0]

\* `#${r.toString(16).padStart(2, '0')}...` for the channel values 0 and 255
rgb2hex(rgb) ==
  LET h(n) == IF n = 255 THEN "ff" ELSE "00"
  IN "#" \o h(rgb.r) \o h(rgb.g) \o h(rgb.b)

\* progress is 0 or 1, so Math.round changes nothing
interpolateColor(color1, color2, progress) ==
  LET rgb1 == hex2rgb(color1)
      rgb2 == hex2rgb(color2)
  IN rgb2hex([r |-> rgb1.r + (rgb2.r - rgb1.r) * progress,
              g |-> rgb1.g + (rgb2.g - rgb1.g) * progress,
              b |-> rgb1.b + (rgb2.b - rgb1.b) * progress])

\* a || b on numbers
orNumber(a, b) == IF a = UndefinedNumber \/ a = 0 THEN b ELSE a
\* a ?? b on numbers
nullishNumber(a, b) == IF a = UndefinedNumber THEN b ELSE a

\* (config1.animated || config2.animated) ?? false
interpolateAnimated(a1, a2) ==
  LET either == IF a1 = "true" THEN a1 ELSE a2
  IN IF either = "undefined" THEN "false" ELSE either

\* (config1.speed ?? 15) + ((config2.speed ?? 15) - (config1.speed ?? 15)) * progress
interpolateSpeed(s1, s2, progress) ==
  nullishNumber(s1, DefaultSpeed)
    + (nullishNumber(s2, DefaultSpeed) - nullishNumber(s1, DefaultSpeed)) * progress

interpolateMeshGradients(config1, config2, progress) ==
  [colors |->
     [i \in 1..Len(config1.colors) |->
        LET color == config1.colors[i]
            other == IF i <= Len(config2.colors)
                     THEN config2.colors[i]
                     ELSE [color |-> "", position |-> <<UndefinedNumber, UndefinedNumber>>]
        IN [color |-> interpolateColor(color.color,
                                       IF other.color = "" THEN color.color
                                       ELSE other.color, progress),
            position |->
              <<color.position[1]
                  + orNumber(other.position[1], color.position[1] - color.position[1])
                    * progress,
                color.position[2]
                  + orNumber(other.position[2], color.position[2] - color.position[2])
                    * progress>>]],
   animated |-> interpolateAnimated(config1.animated, config2.animated),
   speed |-> interpolateSpeed(config1.speed, config2.speed, progress)]

MeshColors ==
  {[color |-> "#ff0000", position |-> <<0, 0>>],
   [color |-> "#0000ff", position |-> <<100, 100>>],
   [color |-> "hsl(10, 70%, 60%)", position |-> <<50, 0>>]}

MeshConfigs(n) ==
  [colors : [1..n -> MeshColors],
   animated : {"true", "false", "undefined"},
   speed : {10, 20, 0, UndefinedNumber}]

\* progress 0 (all of config1) or 1 (all of config2)
Progress == {0, 1}

Interpolate ==
  /\ ~mesh.called
  /\ mesh' = [mesh EXCEPT
        !.called = TRUE,
        !.result = interpolateMeshGradients(mesh.config1, mesh.config2, mesh.progress)]
  /\ UNCHANGED <<palette, press, throttle, debounce>>

\* the arguments of the call: two configs with the same number of colors
InitMesh ==
  /\ PaletteIdle
  /\ press = NoPress
  /\ throttle = NoThrottle
  /\ debounce = NoDebounce
  /\ \E n \in 1..MaxColors :
       \E cfg1 \in MeshConfigs(n), cfg2 \in MeshConfigs(n), p \in Progress :
         mesh = [NoMesh EXCEPT !.config1 = cfg1, !.config2 = cfg2, !.progress = p]

NextMesh == Interpolate

SpecMesh == InitMesh /\ [][NextMesh]_vars

TypeOK ==
  /\ controlledIsOpen \in {"undefined", "true", "false"}
  /\ internalIsOpen \in BOOLEAN
  /\ query \in Queries
  /\ selectedIndex \in {NaN} \cup 0..3
  /\ commands \in RegistryIds

\* ------------------------------------------------------------------ claims
AllCommands == {c1, c2, c3, c4}
actionOf(id) == (CHOOSE c \in AllCommands : c.id = id).action

\* C1: in controlled mode every close transition (Escape, overlay click,
\* hotkey while open, close-on-select) invokes onClose exactly once.
C1_OnCloseOncePerClose ==
  (isControlled /\ hasOnClose /\ last.wasOpen /\ last.closes = 1
     /\ last.ev \in {"Escape", "overlay", "keydown", "Enter", "click"})
    => last.onClose = 1

\* C2: the flat list that navigation indexes into, and whose length the
\* results counter shows, is the concatenation of the commands of the
\* truncated visible groups, so its length never exceeds maxResults.
C2_FlatIsConcatOfVisibleGroups ==
  isOpen => /\ filteredCommands = visibleCommands
            /\ Len(filteredCommands) <= maxResults

\* C3: for every query and matcher, no disabled command appears in the
\* filtered groups or in the flat navigation list.
C3_NoDisabledInFilteredView ==
  isOpen => /\ \A i \in 1..Len(filteredCommands) : ~filteredCommands[i].disabled
            /\ \A g \in 1..Len(filteredGroups) :
                 \A i \in 1..Len(filteredGroups[g].commands) :
                   ~filteredGroups[g].commands[i].disabled

\* C4: when the selected command's action throws and closeOnSelect is true,
\* the palette still performs the close transition and the failure reaches
\* the caller, for a selection by Enter and by click.
C4_FailedActionStillCloses ==
  (closeOnSelect /\ last.ev \in {"Enter", "click"} /\ last.invoked # "none"
     /\ actionOf(last.invoked) = "throws")
    => last.error /\ last.closes = 1

\* C5: whenever the palette is open and the flat list is non-empty,
\* 0 <= selectedIndex < flat.length.
C5_SelectedIndexInRange ==
  (isOpen /\ Len(filteredCommands) > 0)
    => (0 <= selectedIndex /\ selectedIndex < Len(filteredCommands))

\* C6: selectedIndex is 0 immediately after each setQuery(q), for any q,
\* including q equal to the current query.
C6_IndexZeroAfterSetQuery ==
  last.ev = "change" => selectedIndex = 0

\* C7: with the palette open and the flat list empty, ArrowDown and ArrowUp
\* leave selectedIndex, query and isOpen unchanged.
C7_MoveOnEmptyIsNoOp ==
  [][(isOpen /\ Len(filteredCommands) = 0 /\ last'.ev \in {"ArrowDown", "ArrowUp"})
       => (selectedIndex' = selectedIndex /\ query' = query /\ isOpen' = isOpen)]_vars

\* C8: the open mode (controlled or uncontrolled) of an instance never
\* changes during its lifetime, whatever isOpen values the owner supplies.
C8_ModeNeverFlips ==
  [][isControlled' = isControlled]_vars

\* C9: immediately after every transition from Closed to Open the query is
\* empty and selectedIndex is 0.
C9_OpenStartsFresh ==
  (~last.wasOpen /\ isOpen) => (query = <<>> /\ selectedIndex = 0)

\* The chord as the hotkey format defines it: the platform's primary
\* modifier and the single key character that ends the string.
chordKey(h) == h[Len(h)]
chordPressed(e) ==
  /\ IF isMac THEN e.metaKey ELSE e.ctrlKey
  /\ Len(e.key) = 1
  /\ LowerChar(e.key[1]) = LowerChar(chordKey(hotkey))

\* C10: in uncontrolled mode every keydown matching the chord toggles the
\* palette: Closed becomes Open and Open becomes Closed.
C10_HotkeyToggles ==
  (~isControlled /\ last.ev = "keydown" /\ chordPressed(last.key))
    => isOpen = ~last.wasOpen

C10_Witness ==
  /\ ~isControlled /\ last.ev = "keydown" /\ chordPressed(last.key)
  /\ last.key.key = <<"K">>
  /\ last.wasOpen /\ ~isOpen

\* C11: across mount, open, close, prop changes and unmount an instance has at
\* most one hotkey keydown listener on window, an unmounted instance has
\* none, and no cleanup removes a listener that is not registered any more.
C11_OneHotkeyListener ==
  /\ listener.count <= 1
  /\ ~mounted => listener.count = 0
  /\ ~listener.stale

C11_Witness ==
  /\ ~mounted
  /\ last.ev = "unmount"
  /\ listener.removed = 1
  /\ listener.count = 0

\* C12: with N >= 1 commands in the flat list ArrowDown on the last index
\* selects index 0, ArrowUp on index 0 selects index N - 1, and N times
\* moveNext from index 0 gives index 0 again.
RECURSIVE moveNextTimes(_, _, _)
moveNextTimes(i, n, k) ==
  IF k = 0 THEN i ELSE moveNextTimes(moveNext(i, n), n, k - 1)

C12_NavigationWraps ==
  LET n == Len(filteredCommands)
  IN n >= 1 =>
       /\ (last.ev = "ArrowDown" /\ last.prev = n - 1) => selectedIndex = 0
       /\ (last.ev = "ArrowUp" /\ last.prev = 0) => selectedIndex = n - 1
       /\ moveNextTimes(0, n, n) = 0

C12_Witness ==
  /\ isOpen
  /\ Len(filteredCommands) >= 2
  /\ last.ev = "ArrowDown"
  /\ last.prev = Len(filteredCommands) - 1
  /\ selectedIndex = 0

\* C13: the groups shown are the first matching groups in their order, and
\* their commands together are the first min(maxResults, M) of the M
\* matching commands.
groupIds(gs) == [i \in 1..Len(gs) |-> gs[i].id]

C13_TruncationKeepsPrefix ==
  LET M == Len(filteredCommands)
      k == IF maxResults < M THEN maxResults ELSE M
  IN /\ visibleCommands = SubSeq(filteredCommands, 1, k)
     /\ Len(limitedGroups) <= Len(filteredGroups)
     /\ groupIds(limitedGroups) =
          SubSeq(groupIds(filteredGroups), 1, Len(limitedGroups))

C13_Witness ==
  /\ isOpen
  /\ maxResults = 3
  /\ Len(filteredCommands) = 4
  /\ Len(limitedGroups) = 3
  /\ Len(visibleCommands) = 3

\* C14: Enter on a disabled command, or a click on one, runs no action, calls
\* neither handleClose nor onClose and leaves isOpen, query and
\* selectedIndex as they were.
isDisabledId(id) == \E c \in AllCommands : c.id = id /\ c.disabled

C14_DisabledSelectionIsNoOp ==
  [][(last'.ev \in {"Enter", "click"} /\ isDisabledId(last'.target)) =>
       /\ last'.invoked = "none"
       /\ last'.closes = 0
       /\ last'.onClose = 0
       /\ isOpen' = isOpen
       /\ query' = query
       /\ selectedIndex' = selectedIndex
       /\ pending' = pending]_vars

C14_Witness ==
  /\ isOpen
  /\ last.ev = "Enter"
  /\ last.target = "c3"
  /\ hasSelected(filteredCommands, selectedIndex)
  /\ filteredCommands[selectedIndex + 1].id = "c3"

\* C15: in controlled mode the rendered isOpen is the value the owner
\* supplied, and no event of the palette itself changes it.
C15_ControlledIsOpenIsOwners ==
  [][isControlled' =>
       /\ isOpen' = (controlledIsOpen' = "true")
       /\ (isControlled /\ last'.ev # "isOpen") => isOpen' = isOpen]_vars

C15_Witness ==
  /\ isControlled
  /\ last.ev = "Escape"
  /\ last.wasOpen
  /\ last.closes = 1
  /\ isOpen

\* C16: handleClose leaves query empty and selectedIndex 0 however often it
\* runs, and a handleClose that runs while the palette is already closed
\* calls no onClose.
C16_CloseIsIdempotent ==
  last.closes = 1 =>
    /\ query = <<>>
    /\ selectedIndex = 0
    /\ ~last.wasOpen => last.onClose = 0

\* C17: whenever the palette is open and the flat list is empty, the
\* empty-state message is rendered.
C17_EmptyStateShown ==
  (isOpen /\ Len(filteredCommands) = 0) => emptyMessageRendered

\* C18: ArrowDown and ArrowUp step cyclically, Enter and Space run the
\* selected enabled command, Escape closes, Home selects index 0 and End the
\* last index.
C18_KeyboardContract ==
  LET n == Len(filteredCommands)
  IN /\ (last.ev = "ArrowDown" /\ n >= 1 /\ last.prev \in 0..(n - 1)) =>
          selectedIndex = (last.prev + 1) % n
     /\ (last.ev = "ArrowUp" /\ n >= 1 /\ last.prev \in 0..(n - 1)) =>
          selectedIndex = (last.prev + n - 1) % n
     /\ (last.ev \in {"Enter", "Space"} /\ last.target # "none"
           /\ ~isDisabledId(last.target)) => last.invoked = last.target
     /\ last.ev = "Escape" => last.closes = 1
     /\ last.ev = "Home" => selectedIndex = 0
     /\ (last.ev = "End" /\ n >= 1) => selectedIndex = n - 1

\* C19: with the default matcher and a query that is not blank, the flat list
\* is, in registry order, exactly the enabled commands one of whose label,
\* description and keywords contains the lowercased query when lowercased.
isSubstring(q, t) ==
  \E i \in 1..(Len(t) + 1) : \E j \in (i - 1)..Len(t) : SubSeq(t, i, j) = q

queryMatchesCommand(c, q) ==
  \/ isSubstring(q, toLowerCase(c.label))
  \/ c.description # Undefined /\ isSubstring(q, toLowerCase(c.description))
  \/ \E k \in 1..Len(c.keywords) : isSubstring(q, toLowerCase(c.keywords[k]))

C19_DefaultMatcher ==
  (filterFn = "default" /\ trim(query) # <<>>) =>
    LET expected(c) == ~c.disabled /\ queryMatchesCommand(c, toLowerCase(query))
    IN filteredCommands = SelectSeq(filteredCommandsOf(commandGroups), expected)

C19_Witness ==
  /\ isOpen
  /\ filterFn = "default"
  /\ commands = 1
  /\ query = <<"A">>
  /\ last.ev = "change"
  /\ Len(filteredCommands) = 2

\* C20: while disabled is true no press-start or press-end event calls
\* onPress.
C20_DisabledNeverPresses ==
  (press.disabled /\ press.ev \in PressStarts \cup PressEnds) =>
    press.onPress = 0

\* C21: the first call of the throttled function runs the callback; a later
\* call runs it exactly when at least delay time units have passed since the
\* last call that ran it.
C21_ThrottleRunsFirstCall ==
  throttle.ev = "call" =>
    /\ throttle.first => throttle.executed
    /\ throttle.prevExec # NoTime =>
         (throttle.executed <=> throttle.now - throttle.prevExec >= throttle.delay)

\* C22: the debounced value is the first input until an input changes; it
\* changes only when a timer runs, which is at least delay time units after
\* the latest change of the input, and then it is the latest input; while it
\* differs from the input a timer for the latest input is waiting, set after
\* that change.
C22_DebounceFollowsLatestInput ==
  /\ ~debounce.changed => debounce.debounced = debounce.value
  /\ debounce.ev # "fire" => debounce.debounced = debounce.before
  /\ debounce.ev = "fire" =>
       /\ debounce.now - debounce.lastChange >= debounce.delay
       /\ debounce.debounced = debounce.value
  /\ debounce.debounced # debounce.value =>
       \E t \in debounce.timers :
         /\ t.value = debounce.value
         /\ t.at >= debounce.lastChange + debounce.delay

C22_Witness ==
  /\ debounce.ev = "fire"
  /\ debounce.delay = 2
  /\ debounce.lastChange >= 1
  /\ debounce.now = debounce.lastChange + debounce.delay
  /\ debounce.before = "initial"
  /\ debounce.debounced = "change2"

\* C23: interpolateMeshGradients(config1, config2, 0) returns the speed and
\* the animated flag of config1.
C23_ProgressZeroKeepsConfig1 ==
  (mesh.called /\ mesh.progress = 0) =>
    /\ mesh.result.speed = mesh.config1.speed
    /\ mesh.result.animated = mesh.config1.animated

\* C24: the hotkey listener is registered once, when the instance is
\* created, and no later event of a mounted instance removes it or registers
\* it again.
C24_ListenerRegisteredOnce ==
  /\ (last.ev = "mount" /\ hotkey # <<>>) =>
       (listener.added = 1 /\ listener.removed = 0)
  /\ (mounted /\ last.ev \notin {"mount", "hotkey"}) =>
       (listener.added = 0 /\ listener.removed = 0)

\* C25: a selection of an asynchronous action, by Enter or by click, does not
\* close the palette in the step that starts the action.
C25_CloseWaitsForAction ==
  (last.ev \in {"Enter", "click"} /\ last.invoked # "none"
     /\ actionOf(last.invoked) = "async") => last.closes = 0

\* C26: while an action is pending ArrowDown, ArrowUp, a change of the query
\* and Escape act as they do otherwise, and none of them takes an action
\* out of the pending ones; Escape resets query and selectedIndex.
C26_ResponsiveWhilePending ==
  [][(pending # EmptyBag
        /\ last'.ev \in {"ArrowDown", "ArrowUp", "change", "Escape"}) =>
       /\ BagCardinality(pending') = BagCardinality(pending)
       /\ {x.via : x \in BagToSet(pending')} = {x.via : x \in BagToSet(pending)}
       /\ last'.ev = "ArrowDown" =>
            /\ selectedIndex' = moveNext(selectedIndex, Len(filteredCommands))
            /\ query' = query /\ isOpen' = isOpen
       /\ last'.ev = "ArrowUp" =>
            /\ selectedIndex' = movePrevious(selectedIndex, Len(filteredCommands))
            /\ query' = query /\ isOpen' = isOpen
       /\ last'.ev = "change" =>
            /\ isOpen' = isOpen
            /\ query' # query => selectedIndex' = 0
       /\ last'.ev = "Escape" =>
            /\ last'.closes = 1
            /\ query' = <<>> /\ selectedIndex' = 0
            /\ ~isControlled => ~isOpen']_vars

C26_Witness ==
  /\ pending # EmptyBag
  /\ last.ev = "Escape"
  /\ last.wasOpen
  /\ ~isOpen
  /\ query = <<>>

\* C27: an empty registry is normalized to zero groups.
C27_EmptyRegistryHasNoGroups ==
  Registry(commands) = <<>> => Len(commandGroups) = 0

\* C28: when a click-selected action completes after the palette was closed
\* and opened again, the completion runs no handleClose: the palette stays
\* open and onClose is not called.
C28_CompletionClosesOwnCycleOnly ==
  (last.ev = "settleclick" /\ last.stale /\ last.wasOpen) =>
    /\ last.closes = 0
    /\ last.onClose = 0
    /\ isOpen

C30_PressEndsAStartedPress ==
  press.onPress > 0 => press.wasStarted

====
